---- MODULE Spec2Model ----
(***************************************************************************)
(* InsertQueryBuilder (src/query-builder/InsertQueryBuilder.ts) as a state *)
(* machine: the builder's configuration calls, the steps of execute() and  *)
(* the compilation of the INSERT statement (getQuery and its helpers).     *)
(*                                                                         *)
(* SQL text is modelled as a sequence of tokens, one per fragment the code *)
(* appends; a value is a record that keeps its JavaScript kind.            *)
(***************************************************************************)
EXTENDS Integers, Sequences, FiniteSets, TLC

\* Largest number of value sets given to values().
MaxSets == 2

----------------------------------------------------------------------------
(* Drivers: the classes createInsertExpression tests with instanceof, and  *)
(* the three capabilities the builder asks the driver for.                 *)

Drivers ==
    {"postgres", "cockroachdb", "mysql", "aurora-data-api", "sqlite", "mssql", "oracle", "sap"}

IsMysqlOrAurora(d) == d \in {"mysql", "aurora-data-api"}

SupportedUpsertType(d) ==
    CASE d \in {"postgres", "cockroachdb", "sqlite"} -> "on-conflict-do-update"
      [] d \in {"mysql", "aurora-data-api"} -> "on-duplicate-key-update"
      [] OTHER -> "undefined"

IsReturningSqlSupported(d) == d \in {"postgres", "cockroachdb", "mssql", "oracle"}

IsUUIDGenerationSupported(d) == d \in {"postgres", "cockroachdb", "mssql"}

----------------------------------------------------------------------------
(* Values: undefined, null, a literal, or a function returning raw SQL.    *)
(* prep records what the driver did to the value before it was bound.      *)

Value(t, v) == [t |-> t, v |-> v, n |-> 0, prep |-> "none"]
Undefined == Value("undefined", "")
Null == Value("null", "")
Lit(s) == Value("lit", s)
RawFn(s) == Value("function", s)

\* driver.preparePersistentValue: null and undefined pass through, anything
\* else is marshalled for the column's type.
PreparePersistentValue(value, column) ==
    IF value.t \in {"undefined", "null"} THEN value
    ELSE [value EXCEPT !.prep = "persistent"]

\* SqlServerDriver.parametrizeValue: wraps the value in an MssqlParameter.
ParametrizeValue(column, value) == [value EXCEPT !.prep = "mssql"]

\* RandomGenerator.uuid4(): a fresh value, told apart by the counter k.
Uuid4(k) == [t |-> "lit", v |-> "uuid4", n |-> k, prep |-> "generated"]

----------------------------------------------------------------------------
(* Column metadata and the tables of the model. *)

Column(name) ==
    [propertyPath |-> name, databaseName |-> name,
     isPrimary |-> name = "id",
     isGenerated |-> name \in {"id", "uid"},
     generationStrategy |-> CASE name = "id" -> "increment" [] name = "uid" -> "uuid" [] OTHER -> "none",
     isInsert |-> name # "stamp",
     isVersion |-> name = "version",
     isDiscriminator |-> name = "type",
     hasDefault |-> name = "title",
     isSpatial |-> name = "geom",
     hasSrid |-> FALSE]

UserTable == <<Column("id"), Column("name")>>
DocTable == <<Column("uid"), Column("version"), Column("type")>>
GeoTable == <<Column("geom"), Column("title"), Column("stamp")>>

NoMetadata == [hasMetadata |-> FALSE, columns |-> <<>>, discriminatorValue |-> ""]
Metadata(columns) == [hasMetadata |-> TRUE, columns |-> columns, discriminatorValue |-> "Doc"]

\* column.getEntityValue(valueSet): a value set is the ordered list of an
\* object's own keys with their values; a missing key reads as undefined.
GetEntityValue(column, valueSet) ==
    IF \E k \in 1..Len(valueSet) : valueSet[k].key = column.propertyPath
    THEN valueSet[CHOOSE k \in 1..Len(valueSet) : valueSet[k].key = column.propertyPath].value
    ELSE Undefined

----------------------------------------------------------------------------
(* Tokens of the SQL text. *)

Sql(s) == [k |-> "sql", s |-> s, n |-> -1]
Ident(s) == [k |-> "id", s |-> s, n |-> -1]
RawSql(s) == [k |-> "raw", s |-> s, n |-> -1]
DefaultOf(s) == [k |-> "default", s |-> s, n |-> -1]
ParamRef(s, n) == [k |-> "param", s |-> s, n |-> n]
Placeholder(n) == [k |-> "placeholder", s |-> "", n |-> n]

RECURSIVE Join(_, _)
Join(seqs, sep) ==
    IF Len(seqs) = 0 THEN <<>>
    ELSE IF Len(seqs) = 1 THEN seqs[1]
    ELSE seqs[1] \o <<Sql(sep)>> \o Join(Tail(seqs), sep)

Count(seq, k) == Cardinality({i \in 1..Len(seq) : seq[i].k = k})
CountSql(seq, s) == Cardinality({i \in 1..Len(seq) : seq[i] = Sql(s)})

----------------------------------------------------------------------------
(* The builder's expression map (the fields InsertQueryBuilder reads). *)

NoUpdate ==
    [set |-> FALSE, overwrite |-> [isArray |-> FALSE, list |-> <<>>],
     columns |-> [isArray |-> FALSE, list |-> <<>>], conflict |-> [kind |-> "undefined", list |-> <<>>]]

\* expressionMap.returning before any returning() call.
NoReturning == [kind |-> "undefined", text |-> "", list |-> <<>>]

NoValues == [form |-> "missing", sets |-> <<>>]

\* getValueSets(): an array as it is, a single object as a one-element list.
\* (A missing value throws InsertValuesMissingError: ValuesMissing.)
ValuesMissing(em) == em.valuesSet.form = "missing"
GetValueSets(em) == em.valuesSet.sets

\* metadata.findColumnsWithPropertyPath(path)
FindColumnsWithPropertyPath(em, path) ==
    SelectSeq(em.mainAlias.columns, LAMBDA c : c.propertyPath = path)

Includes(seq, x) == \E i \in 1..Len(seq) : seq[i] = x

\* A test that takes null for a supplied value.
IsOverridingAutoIncrementBehaviorWithNull(em, column) ==
    /\ column.isPrimary
    /\ column.isGenerated
    /\ column.generationStrategy = "increment"
    /\ \E i \in 1..Len(GetValueSets(em)) :
          GetEntityValue(column, GetValueSets(em)[i]).t # "undefined"

\* isOverridingAutoIncrementBehavior(column)
IsOverridingAutoIncrementBehavior(em, column) ==
    /\ column.isPrimary
    /\ column.isGenerated
    /\ column.generationStrategy = "increment"
    /\ \E i \in 1..Len(GetValueSets(em)) :
          GetEntityValue(column, GetValueSets(em)[i]).t \notin {"undefined", "null"}

\* A column filter without the rule for auto-increment columns.
GetInsertedColumnsWithIncrement(d, em) ==
    IF ~em.mainAlias.hasMetadata THEN <<>>
    ELSE SelectSeq(em.mainAlias.columns, LAMBDA column :
            IF Len(em.insertColumns) > 0 THEN Includes(em.insertColumns, column.propertyPath)
            ELSE column.isInsert)

\* getInsertedColumns()
GetInsertedColumns(d, em) ==
    IF ~em.mainAlias.hasMetadata THEN <<>>
    ELSE SelectSeq(em.mainAlias.columns, LAMBDA column :
            IF Len(em.insertColumns) > 0 THEN Includes(em.insertColumns, column.propertyPath)
            ELSE IF ~column.isInsert THEN FALSE
            ELSE IF /\ column.isGenerated
                    /\ column.generationStrategy = "increment"
                    /\ d \notin {"oracle", "sqlite", "mysql", "aurora-data-api"}
                    /\ ~(d = "mssql" /\ IsOverridingAutoIncrementBehavior(em, column))
                 THEN FALSE
            ELSE TRUE)

\* createColumnNamesExpression()
CreateColumnNamesExpression(d, em) ==
    LET columns == GetInsertedColumns(d, em)
        valueSets == GetValueSets(em)
    IN  IF Len(columns) > 0
        THEN Join([j \in 1..Len(columns) |-> <<Ident(columns[j].databaseName)>>], ", ")
        ELSE IF ~em.mainAlias.hasMetadata /\ Len(em.insertColumns) = 0 /\ Len(valueSets) = 1
        THEN Join([j \in 1..Len(valueSets[1]) |-> <<Ident(valueSets[1][j].key)>>], ", ")
        ELSE Join([j \in 1..Len(em.insertColumns) |-> <<Ident(em.insertColumns[j])>>], ", ")

----------------------------------------------------------------------------
(* Parameters. The compilation threads a record st through its steps:      *)
(* expression (the text built so far), parameterIndex and parameters (the  *)
(* builder's named parameters, in creation order), locallyGenerated, and   *)
(* paramName (the name the last createParameter returned).                 *)

\* QueryBuilder.createParameter(value): binds value under a fresh name
\* orm_param_<parameterIndex> and returns ":" + that name.
CreateParameter(st, value) ==
    [st EXCEPT !.parameterIndex = @ + 1,
               !.parameters = Append(@, [s |-> "orm_param", n |-> st.parameterIndex, value |-> value]),
               !.paramName = ParamRef("orm_param", st.parameterIndex)]

Emit(st, tokens) == [st EXCEPT !.expression = @ \o tokens]

\* Appends the name the last createParameter returned, between two texts.
EmitName(st, before, after) == Emit(st, before \o <<st.paramName>> \o after)

\* A map that keeps every generated value under the index of the first set.
SetLocallyGeneratedAtFirst(st, valueSetIndex, column, value) ==
    [st EXCEPT !.locallyGenerated =
        {g \in @ : ~(g.index = 0 /\ g.propertyPath = column.propertyPath)}
        \cup {[index |-> 0, propertyPath |-> column.propertyPath, value |-> value]}]

\* column.setEntityValue(locallyGenerated[valueSetIndex], value)
SetLocallyGenerated(st, valueSetIndex, column, value) ==
    [st EXCEPT !.locallyGenerated =
        {g \in @ : ~(g.index = valueSetIndex /\ g.propertyPath = column.propertyPath)}
        \cup {[index |-> valueSetIndex, propertyPath |-> column.propertyPath, value |-> value]}]

----------------------------------------------------------------------------
(* createValuesExpression() *)

\* MysqlConnectionOptions.legacySpatialSupport, a connection option.
LegacySpatialSupport(d) == d = "mysql"

\* createParameter(value) and the text that holds its name.
EmitParameter(st, value, before, after) ==
    EmitName(CreateParameter(st, value), before, after)

\* A binding that creates the parameter and leaves its name out of the text.
BindValueUnreferenced(d, column, bound, st) == CreateParameter(st, bound)

\* "Just any other regular value": the value is bound as a parameter, inside
\* the driver's spatial function when the column has a spatial type.
BindValue(d, column, bound, st) ==
    IF IsMysqlOrAurora(d) /\ column.isSpatial
    THEN EmitParameter(st, bound,
            <<Sql(IF LegacySpatialSupport(d) THEN "GeomFromText(" ELSE "ST_GeomFromText(")>>,
            (IF column.hasSrid THEN <<Sql(", srid")>> ELSE <<>>) \o <<Sql(")")>>)
    ELSE IF d = "postgres" /\ column.isSpatial
    THEN IF column.hasSrid
         THEN EmitParameter(st, bound, <<Sql("ST_SetSRID(ST_GeomFromGeoJSON(")>>, <<Sql(")"), Sql(", srid"), Sql(")::type")>>)
         ELSE EmitParameter(st, bound, <<Sql("ST_GeomFromGeoJSON(")>>, <<Sql(")::type")>>)
    ELSE IF d = "mssql" /\ column.isSpatial
    THEN EmitParameter(st, bound, <<Sql("type::STGeomFromText(")>>,
            <<Sql(IF column.hasSrid THEN ", srid" ELSE ", 0"), Sql(")")>>)
    ELSE EmitParameter(st, bound, <<>>, <<>>)

\* A chain that tests for undefined before it tests the kind of column.
ValueExpressionUndefinedFirst(d, em, column, value, valueSetIndex, oracleMulti, st) ==
    IF value.t = "undefined"
    THEN IF oracleMulti \/ d = "sqlite" \/ d = "sap"
         THEN IF column.hasDefault
              THEN Emit(st, <<DefaultOf(column.databaseName)>>)
              ELSE Emit(st, <<Sql("NULL")>>)
         ELSE Emit(st, <<Sql("DEFAULT")>>)
    ELSE IF column.isDiscriminator
    THEN EmitParameter(st, Lit(em.mainAlias.discriminatorValue), <<>>, <<>>)
    ELSE IF value.t = "function"
    THEN Emit(st, <<RawSql(value.v)>>)
    ELSE BindValue(d, column, IF d = "mssql" THEN ParametrizeValue(column, value) ELSE value, st)

\* The text for one column of one value set (the if/else chain of the
\* branch with column metadata).
ValueExpression(d, em, column, value, valueSetIndex, oracleMulti, st) ==
    IF column.isVersion /\ value.t = "undefined"
    THEN Emit(st, <<Sql("1")>>)
    ELSE IF column.isDiscriminator
    THEN EmitParameter(st, Lit(em.mainAlias.discriminatorValue), <<>>, <<>>)
    ELSE IF /\ column.isGenerated
            /\ column.generationStrategy = "uuid"
            /\ ~IsUUIDGenerationSupported(d)
            /\ value.t = "undefined"
    THEN SetLocallyGenerated(EmitParameter(st, Uuid4(st.parameterIndex), <<>>, <<>>),
                             valueSetIndex, column, Uuid4(st.parameterIndex))
    ELSE IF value.t = "undefined"
    THEN IF oracleMulti \/ d = "sqlite" \/ d = "sap"
         THEN IF column.hasDefault
              THEN Emit(st, <<DefaultOf(column.databaseName)>>)
              ELSE Emit(st, <<Sql("NULL")>>)
         ELSE Emit(st, <<Sql("DEFAULT")>>)
    ELSE IF value.t = "function"
    THEN Emit(st, <<RawSql(value.v)>>)
    ELSE BindValue(d, column, IF d = "mssql" THEN ParametrizeValue(column, value) ELSE value, st)

\* if (!(value instanceof Function)) value = driver.preparePersistentValue(value, column)
PreparedValue(entity, column) ==
    IF entity.t # "function" THEN PreparePersistentValue(entity, column) ELSE entity

\* One iteration of columns.forEach inside valueSets.forEach (i, j from 1).
ValueCell(d, em, columns, valueSets, st, i, j) ==
    Emit(ValueExpression(d, em, columns[j],
                         PreparedValue(GetEntityValue(columns[j], valueSets[i]), columns[j]),
                         i - 1, d = "oracle" /\ Len(valueSets) > 1,
                         IF j = 1
                         THEN Emit(st, <<Sql(IF d = "oracle" /\ Len(valueSets) > 1 THEN " SELECT " ELSE "(")>>)
                         ELSE st),
         <<Sql(IF j = Len(columns)
               THEN IF i = Len(valueSets)
                    THEN (IF d = "oracle" /\ Len(valueSets) > 1 THEN " FROM DUAL " ELSE ")")
                    ELSE (IF d = "oracle" /\ Len(valueSets) > 1 THEN " FROM DUAL UNION ALL " ELSE "), ")
               ELSE ", ")>>)

RECURSIVE ValuesLoop(_, _, _, _, _, _, _)
ValuesLoop(d, em, columns, valueSets, st, i, j) ==
    IF i > Len(valueSets) THEN st
    ELSE IF j > Len(columns) THEN ValuesLoop(d, em, columns, valueSets, st, i + 1, 1)
    ELSE ValuesLoop(d, em, columns, valueSets, ValueCell(d, em, columns, valueSets, st, i, j), i, j + 1)

\* One iteration of the loops of the branch for tables without metadata:
\* the columns are the value set's own keys.
PlainValue(d, value, st) ==
    IF value.t = "function" THEN Emit(st, <<RawSql(value.v)>>)
    ELSE IF value.t = "undefined"
    THEN Emit(st, <<Sql(IF d = "sqlite" \/ d = "sap" THEN "NULL" ELSE "DEFAULT")>>)
    ELSE EmitParameter(st, value, <<>>, <<>>)

PlainCell(d, valueSets, st, i, j) ==
    Emit(PlainValue(d, valueSets[i][j].value, IF j = 1 THEN Emit(st, <<Sql("(")>>) ELSE st),
         <<Sql(IF j = Len(valueSets[i])
               THEN (IF i = Len(valueSets) THEN ")" ELSE "), ")
               ELSE ", ")>>)

RECURSIVE PlainLoop(_, _, _, _, _)
PlainLoop(d, valueSets, st, i, j) ==
    IF i > Len(valueSets) THEN st
    ELSE IF j > Len(valueSets[i]) THEN PlainLoop(d, valueSets, st, i + 1, 1)
    ELSE PlainLoop(d, valueSets, PlainCell(d, valueSets, st, i, j), i, j + 1)


\* A test that also takes a tuple of nothing but default markers for empty.
EmptyTupleWhenAllDefault(result) ==
    IF \A h \in 1..Len(result.expression) :
          \/ result.expression[h] \in {Sql("("), Sql(")"), Sql(", "), Sql("DEFAULT"), Sql("NULL")}
          \/ result.expression[h].k = "default"
    THEN [result EXCEPT !.expression = <<>>]
    ELSE result

\* if (expression === "()") return ""
EmptyTuple(result) ==
    IF result.expression = <<Sql("("), Sql(")")>>
    THEN [result EXCEPT !.expression = <<>>]
    ELSE result

ValuesOf(d, em, valueSets, columns, st) ==
    IF Len(columns) > 0
    THEN EmptyTuple(ValuesLoop(d, em, columns, valueSets, st, 1, 1))
    ELSE EmptyTuple(PlainLoop(d, valueSets, st, 1, 1))

\* createValuesExpression(): st.expression is the text returned.
CreateValuesExpression(d, em, st) ==
    ValuesOf(d, em, GetValueSets(em), GetInsertedColumns(d, em), [st EXCEPT !.expression = <<>>])

----------------------------------------------------------------------------
(* createInsertExpression() *)

TableName == "tbl"

RECURSIVE Flatten(_)
Flatten(seqs) == IF Len(seqs) = 0 THEN <<>> ELSE seqs[1] \o Flatten(Tail(seqs))

\* The columns the returning list names, resolved against the metadata.
ResolveReturning(em) ==
    IF em.returning.kind = "array" /\ em.mainAlias.hasMetadata
    THEN Flatten([k \in 1..Len(em.returning.list) |-> FindColumnsWithPropertyPath(em, em.returning.list[k])])
    ELSE <<>>

\* QueryBuilder.createReturningExpression(): the requested columns, then the
\* extra returning columns not yet among them; a raw returning string as is.
ReturningText(em, columns) ==
    IF Len(columns) > 0
    THEN Join([k \in 1..Len(columns) |-> <<Ident(columns[k].databaseName)>>], ", ")
    ELSE IF em.returning.kind = "string" /\ em.returning.text # ""
    THEN <<RawSql(em.returning.text)>>
    ELSE <<>>

WithExtra(d, em, requested) ==
    requested \o (IF em.returning.kind # "string" /\ IsReturningSqlSupported(d)
                  THEN SelectSeq(em.extraReturningColumns, LAMBDA c : ~Includes(requested, c))
                  ELSE <<>>)

CreateReturningExpression(d, em) == ReturningText(em, WithExtra(d, em, ResolveReturning(em)))

\* The ON CONFLICT target of the orUpdate policy.
ConflictTarget(conflict) ==
    <<Sql("ON CONFLICT")>> \o
    (IF conflict.kind = "array"
     THEN <<Sql(" ( ")>> \o Join([k \in 1..Len(conflict.list) |-> <<Ident(conflict.list[k])>>], ", ") \o <<Sql(" )")>>
     ELSE IF conflict.kind = "string"
     THEN <<Sql(" ON CONSTRAINT "), Ident(conflict.list[1])>>
     ELSE <<>>)

\* The DO UPDATE SET clause of a dialect with ON CONFLICT ... DO UPDATE.
DoUpdateSet(em, overwrite, columns) ==
    IF overwrite.isArray
    THEN <<Sql(" ")>> \o ConflictTarget(em.onUpdate.conflict) \o <<Sql(" DO UPDATE SET ")>>
         \o Join([k \in 1..Len(overwrite.list) |->
                   <<Ident(overwrite.list[k]), Sql(" = EXCLUDED."), Ident(overwrite.list[k])>>], ", ")
         \o <<Sql(" ")>>
    ELSE IF columns.isArray
    THEN <<Sql(" ")>> \o ConflictTarget(em.onUpdate.conflict) \o <<Sql(" DO UPDATE SET ")>>
         \o Join([k \in 1..Len(columns.list) |->
                   <<Ident(columns.list[k]), Sql(" = "), ParamRef(columns.list[k], -1)>>], ", ")
         \o <<Sql(" ")>>
    ELSE <<>>

\* An upsert clause that looks at the orUpdate policy before onIgnore.
OnConflictDoUpdateFirst(em) ==
    IF em.onUpdate.set
    THEN DoUpdateSet(em, em.onUpdate.overwrite, em.onUpdate.columns)
    ELSE IF em.onIgnore
    THEN <<Sql(" ON CONFLICT DO NOTHING ")>>
    ELSE IF em.onConflict # ""
    THEN <<Sql(" ON CONFLICT "), RawSql(em.onConflict), Sql(" ")>>
    ELSE <<>>

\* The upsert clause of a dialect with ON CONFLICT ... DO UPDATE.
OnConflictDoUpdate(em) ==
    IF em.onIgnore
    THEN <<Sql(" ON CONFLICT DO NOTHING ")>>
    ELSE IF em.onConflict # ""
    THEN <<Sql(" ON CONFLICT "), RawSql(em.onConflict), Sql(" ")>>
    ELSE IF em.onUpdate.set
    THEN DoUpdateSet(em, em.onUpdate.overwrite, em.onUpdate.columns)
    ELSE <<>>

\* An upsert clause that is written for every orUpdate() call, with or
\* without a list of columns.
OnDuplicateKeyUpdateAlways(em, overwrite, columns) ==
    IF ~em.onUpdate.set
    THEN <<>>
    ELSE <<Sql(" ON DUPLICATE KEY UPDATE ")>>
         \o Join([k \in 1..Len(overwrite.list) |->
                   <<Ident(overwrite.list[k]), Sql(" = VALUES("), Ident(overwrite.list[k]), Sql(")")>>], ", ")
         \o <<Sql(" ")>>

\* The upsert clause of a dialect with ON DUPLICATE KEY UPDATE.
OnDuplicateKeyUpdate(em, overwrite, columns) ==
    IF ~em.onUpdate.set
    THEN <<>>
    ELSE IF overwrite.isArray
    THEN <<Sql(" ON DUPLICATE KEY UPDATE ")>>
         \o Join([k \in 1..Len(overwrite.list) |->
                   <<Ident(overwrite.list[k]), Sql(" = VALUES("), Ident(overwrite.list[k]), Sql(")")>>], ", ")
         \o <<Sql(" ")>>
    ELSE IF columns.isArray
    THEN <<Sql(" ON DUPLICATE KEY UPDATE ")>>
         \o Join([k \in 1..Len(columns.list) |->
                   <<Ident(columns.list[k]), Sql(" = "), ParamRef(columns.list[k], -1)>>], ", ")
         \o <<Sql(" ")>>
    ELSE <<>>

\* What a dialect with no upsert support throws for the configured policy.
UnsupportedUpsert(em) == IF em.onUpdate.set THEN "TypeORMError" ELSE "none"

\* The upsert clause of createInsertExpression: threw names the error thrown.
UpsertExpression(d, em) ==
    IF SupportedUpsertType(d) = "on-conflict-do-update"
    THEN [threw |-> "none", text |-> OnConflictDoUpdate(em)]
    ELSE IF SupportedUpsertType(d) = "on-duplicate-key-update"
    THEN [threw |-> "none", text |-> OnDuplicateKeyUpdate(em, em.onUpdate.overwrite, em.onUpdate.columns)]
    ELSE [threw |-> UnsupportedUpsert(em), text |-> <<>>]

\* Whether the statement is wrapped in SET IDENTITY_INSERT ... ON / OFF.
NeedsIdentityInsert(d, em) ==
    /\ d = "mssql"
    /\ em.mainAlias.hasMetadata
    /\ \E k \in 1..Len(em.mainAlias.columns) :
          LET column == em.mainAlias.columns[k]
          IN  /\ IF Len(em.insertColumns) > 0
                 THEN Includes(em.insertColumns, column.propertyPath)
                 ELSE column.isInsert
              /\ IsOverridingAutoIncrementBehavior(em, column)

\* The statement inside the identity-insert wrapper, when one is needed.
IdentityInsert(d, em, insert) ==
    IF NeedsIdentityInsert(d, em)
    THEN <<Sql("SET IDENTITY_INSERT "), Ident(TableName), Sql(" ON; ")>> \o insert
         \o <<Sql("; SET IDENTITY_INSERT "), Ident(TableName), Sql(" OFF")>>
    ELSE insert

\* The text of createInsertExpression from its four expressions.
InsertText(d, em, valuesExpression, returningExpression, columnsExpression, upsertText) ==
    <<Sql("INSERT ")>>
    \o (IF IsMysqlOrAurora(d) /\ em.onIgnore THEN <<Sql(" IGNORE ")>> ELSE <<>>)
    \o <<Sql("INTO "), Ident(TableName)>>
    \o (IF columnsExpression # <<>>
        THEN <<Sql("(")>> \o columnsExpression \o <<Sql(")")>>
        ELSE IF valuesExpression = <<>> /\ IsMysqlOrAurora(d) THEN <<Sql("()")>> ELSE <<>>)
    \o (IF returningExpression # <<>> /\ d = "mssql"
        THEN <<Sql(" OUTPUT ")>> \o returningExpression ELSE <<>>)
    \o (IF valuesExpression # <<>>
        THEN (IF d = "oracle" /\ Len(GetValueSets(em)) > 1 THEN <<Sql(" ")>> ELSE <<Sql(" VALUES ")>>)
             \o valuesExpression
        ELSE IF IsMysqlOrAurora(d) THEN <<Sql(" VALUES ()")>> ELSE <<Sql(" DEFAULT VALUES")>>)
    \o upsertText
    \o (IF returningExpression # <<>> /\ d \in {"postgres", "oracle", "cockroachdb"}
        THEN <<Sql(" RETURNING ")>> \o returningExpression ELSE <<>>)

InsertOf(d, em, values, returningExpression, columnsExpression, upsert) ==
    IF upsert.threw # "none"
    THEN [threw |-> upsert.threw, query |-> <<>>, st |-> values]
    ELSE [threw |-> "none", st |-> values,
          query |-> IdentityInsert(d, em, InsertText(d, em, values.expression, returningExpression,
                                                    columnsExpression, upsert.text))]

\* createInsertExpression(): [threw, query, st]; st carries the parameters
\* created and the locally generated values.
CreateInsertExpression(d, em, st) ==
    IF ValuesMissing(em)
    THEN [threw |-> "InsertValuesMissingError", query |-> <<>>, st |-> st]
    ELSE InsertOf(d, em, CreateValuesExpression(d, em, st),
                  IF d = "oracle" /\ Len(GetValueSets(em)) > 1 THEN <<>> ELSE CreateReturningExpression(d, em),
                  CreateColumnNamesExpression(d, em),
                  UpsertExpression(d, em))

----------------------------------------------------------------------------
(* getQueryAndParameters() *)

Binds(parameters, token) ==
    \E k \in 1..Len(parameters) : parameters[k].s = token.s /\ parameters[k].n = token.n

Bound(parameters, token) ==
    parameters[CHOOSE k \in 1..Len(parameters) : parameters[k].s = token.s /\ parameters[k].n = token.n].value

\* driver.escapeQueryWithParameters(sql, parameters): every ":name" that
\* names a bound parameter becomes the next positional placeholder and its
\* value is pushed onto the array; any other text stays as it is.
RECURSIVE EscapeQueryWithParameters(_, _, _)
EscapeQueryWithParameters(sql, parameters, out) ==
    IF Len(sql) = 0 THEN out
    ELSE LET token == Head(sql)
         IN  IF token.k = "param" /\ Binds(parameters, token)
             THEN EscapeQueryWithParameters(Tail(sql), parameters,
                     [sql |-> Append(out.sql, Placeholder(Len(out.parameters) + 1)),
                      parameters |-> Append(out.parameters, Bound(parameters, token))])
             ELSE EscapeQueryWithParameters(Tail(sql), parameters,
                     [out EXCEPT !.sql = Append(@, token)])

\* getQuery() followed by the driver's escaping: [threw, query, sql,
\* parameters, st]. query is getQuery()'s text, sql and parameters the pair
\* handed to queryRunner.query.
Compiled(insert, escaped) ==
    [threw |-> insert.threw, query |-> insert.query, sql |-> escaped.sql,
     parameters |-> escaped.parameters, st |-> insert.st]

Escaped(insert) ==
    Compiled(insert, EscapeQueryWithParameters(insert.query, insert.st.parameters,
                                               [sql |-> <<>>, parameters |-> <<>>]))

GetQueryAndParameters(d, em, index) ==
    Escaped(CreateInsertExpression(d, em,
                [expression |-> <<>>, parameterIndex |-> index, parameters |-> em.parameters,
                 locallyGenerated |-> em.locallyGenerated, paramName |-> Sql("")]))

\* ReturningResultsEntityUpdator.getInsertionReturningColumns(): the columns
\* whose values the database fills in, when the driver can return them.
GetInsertionReturningColumns(d, em) ==
    SelectSeq(em.mainAlias.columns, LAMBDA c :
        c.hasDefault \/ (IsReturningSqlSupported(d) /\ c.isGenerated) \/ c.isVersion)

----------------------------------------------------------------------------
(* State. *)

VARIABLES
    driver,                 \* connection.driver
    expressionMap,          \* this.expressionMap
    parameterIndex,         \* this.parameterIndex
    thisQueryRunner,        \* this.queryRunner: "given" by the caller, or "none"
    thrown,                 \* the error the last configuration call threw, or "none"
    pc,                     \* position inside execute(), "idle" before it
    queryRunner,            \* execute()'s queryRunner: "none", "given" or "created"
    isTransactionActive,    \* queryRunner.isTransactionActive
    activeAtEntry,          \* isTransactionActive as the caller left it before execute()
    transactionStartedByUs, \* execute()'s local flag
    calls,                  \* the calls execute() made on its collaborators, in order
    error,                  \* the error caught by execute()'s catch block
    completion,             \* how the try/catch completed: a return or a throw
    outcome,                \* what the caller of execute() / getQueryAndParameters() gets
    compiled                \* the last statement compiled

vars == <<driver, expressionMap, parameterIndex, thisQueryRunner, thrown, pc, queryRunner,
          isTransactionActive, activeAtEntry, transactionStartedByUs, calls, error, completion, outcome, compiled>>

envVars == <<driver, thisQueryRunner, activeAtEntry>>
runVars == <<pc, queryRunner, isTransactionActive, transactionStartedByUs, calls, error,
             completion, outcome, compiled, parameterIndex>>

Call(op, arg) == [op |-> op, arg |-> arg]
Pending == [kind |-> "none", value |-> ""]
Return(v) == [kind |-> "return", value |-> v]
Throw(e) == [kind |-> "throw", value |-> e]
NothingCompiled == [sql |-> <<>>, parameters |-> <<>>, query |-> <<>>, returningColumns |-> <<>>]

\* The expression map of a builder created for an INSERT into target.
NewExpressionMap(mainAlias, insertColumns, useTransaction, callListeners, parameters) ==
    [mainAlias |-> mainAlias, insertColumns |-> insertColumns, valuesSet |-> NoValues,
     returning |-> NoReturning, updateEntity |-> TRUE, onConflict |-> "", onIgnore |-> FALSE,
     onUpdate |-> NoUpdate, useTransaction |-> useTransaction, callListeners |-> callListeners,
     extraReturningColumns |-> <<>>, locallyGenerated |-> {}, parameters |-> parameters]

InitRun ==
    /\ parameterIndex = 0
    /\ thrown = "none"
    /\ pc = "idle"
    /\ queryRunner = "none"
    /\ transactionStartedByUs = FALSE
    /\ calls = <<>>
    /\ error = "none"
    /\ completion = Pending
    /\ outcome = Pending
    /\ compiled = NothingCompiled

----------------------------------------------------------------------------
(* The configuration calls. *)

\* values(values)
Values(values) ==
    /\ pc = "idle"
    /\ expressionMap' = [expressionMap EXCEPT !.valuesSet = values]
    /\ thrown' = "none"
    /\ UNCHANGED <<envVars, runVars>>

\* A returning() that stores its argument before it asks the driver.
ReturningUnchecked(returning) ==
    /\ pc = "idle"
    /\ expressionMap' = [expressionMap EXCEPT !.returning = returning]
    /\ thrown' = IF IsReturningSqlSupported(driver) THEN "none" ELSE "ReturningStatementNotSupportedError"
    /\ UNCHANGED <<envVars, runVars>>

\* returning(returning)
Returning(returning) ==
    /\ pc = "idle"
    /\ IF ~IsReturningSqlSupported(driver)
       THEN /\ thrown' = "ReturningStatementNotSupportedError"
            /\ UNCHANGED expressionMap
       ELSE /\ expressionMap' = [expressionMap EXCEPT !.returning = returning]
            /\ thrown' = "none"
    /\ UNCHANGED <<envVars, runVars>>

\* output(output)
Output(output) == Returning(output)

\* updateEntity(enabled)
UpdateEntity(enabled) ==
    /\ pc = "idle"
    /\ expressionMap' = [expressionMap EXCEPT !.updateEntity = enabled]
    /\ thrown' = "none"
    /\ UNCHANGED <<envVars, runVars>>

\* onConflict(statement)
OnConflict(statement) ==
    /\ pc = "idle"
    /\ expressionMap' = [expressionMap EXCEPT !.onConflict = statement]
    /\ thrown' = "none"
    /\ UNCHANGED <<envVars, runVars>>

\* orIgnore(statement): statement is true by default; !!statement is kept.
OrIgnore(statement) ==
    /\ pc = "idle"
    /\ expressionMap' = [expressionMap EXCEPT !.onIgnore = statement]
    /\ thrown' = "none"
    /\ UNCHANGED <<envVars, runVars>>

\* orUpdate(statementOrOverwrite, conflictTarget): an overwrite array with
\* its conflict target, or the deprecated statement object.
OrUpdate(statementOrOverwrite, conflictTarget) ==
    /\ pc = "idle"
    /\ expressionMap' =
         [expressionMap EXCEPT !.onUpdate =
            IF ~statementOrOverwrite.isArray
            THEN [set |-> TRUE, conflict |-> statementOrOverwrite.conflict_target,
                  columns |-> statementOrOverwrite.columns, overwrite |-> statementOrOverwrite.overwrite]
            ELSE [set |-> TRUE, overwrite |-> [isArray |-> TRUE, list |-> statementOrOverwrite.list],
                  conflict |-> conflictTarget, columns |-> [isArray |-> FALSE, list |-> <<>>]]]
    /\ thrown' = "none"
    /\ UNCHANGED <<envVars, runVars>>

----------------------------------------------------------------------------
(* execute(), one action per step; an awaited call either resolves (ok) or *)
(* rejects, and a rejection inside the try block is caught at "catch".     *)

ListenersOn == expressionMap.callListeners /\ expressionMap.mainAlias.hasMetadata
UpdateEntityOn == expressionMap.updateEntity /\ expressionMap.mainAlias.hasMetadata

\* A broadcast that awaits each value set's listeners before the next one.
BroadcastCallsAwaitEach(op, valueSets) ==
    [j \in 1..(2 * Len(valueSets)) |->
        IF j % 2 = 1 THEN Call(op, (j + 1) \div 2) ELSE Call("wait", 0)]

\* One broadcast call per value set, in order, then the joint wait.
BroadcastCalls(op, valueSets) ==
    [i \in 1..Len(valueSets) |-> Call(op, i)] \o <<Call("wait", 0)>>

\* An execute() without the short-circuit on an empty list of value sets.
IsEmptyInsertNever == FALSE

\* if (valueSets.length === 0) return new InsertResult()
IsEmptyInsert == Len(GetValueSets(expressionMap)) = 0

\* obtainQueryRunner(): the builder's own query runner, or a new one.
ObtainQueryRunner == IF thisQueryRunner # "none" THEN thisQueryRunner ELSE "created"

\* A guard that looks at useTransaction only and not at the query runner.
ShouldStartTransactionIgnoringActive == expressionMap.useTransaction

\* useTransaction === true && queryRunner.isTransactionActive === false
ShouldStartTransaction == expressionMap.useTransaction /\ ~isTransactionActive

\* if (transactionStartedByUs) in the try block and in the catch block
ShouldCommit == transactionStartedByUs
ShouldRollback == transactionStartedByUs

\* A guard that releases the created query runner only after a success.
ShouldReleaseOnSuccessOnly == queryRunner # thisQueryRunner /\ completion.kind = "return"

\* queryRunner !== this.queryRunner: "we created our own query runner"
ShouldRelease == queryRunner # thisQueryRunner

\* What a rejected rollbackTransaction() leaves to be thrown: the catch
\* block swallows it and throws the error it caught.
AfterRollback(ok, caught) == Throw(caught)

\* A try block that commits before the after-insert listeners run.
StepAfterCommitFirst(step) ==
    CASE step = "startTransaction" -> "beforeInsert"
      [] step = "beforeInsert" -> "compile"
      [] step = "compile" -> "query"
      [] step = "query" -> "applyReturning"
      [] step = "applyReturning" -> "commit"
      [] step = "commit" -> "afterInsert"
      [] step = "afterInsert" -> "finally"

\* The order of the statements of the try block.
StepAfter(step) ==
    CASE step = "startTransaction" -> "beforeInsert"
      [] step = "beforeInsert" -> "compile"
      [] step = "compile" -> "query"
      [] step = "query" -> "applyReturning"
      [] step = "applyReturning" -> "afterInsert"
      [] step = "afterInsert" -> "commit"
      [] step = "commit" -> "finally"

\* Entry: getValueSets(), the empty short-circuit, obtainQueryRunner().
Execute ==
    /\ pc = "idle"
    /\ thrown' = "none"
    /\ IF ValuesMissing(expressionMap)
       THEN /\ outcome' = Throw("InsertValuesMissingError")
            /\ pc' = "done"
            /\ UNCHANGED queryRunner
       ELSE IF IsEmptyInsert
       THEN /\ outcome' = Return("new InsertResult")
            /\ pc' = "done"
            /\ UNCHANGED queryRunner
       ELSE /\ queryRunner' = ObtainQueryRunner
            /\ pc' = "startTransaction"
            /\ UNCHANGED outcome
    /\ UNCHANGED <<envVars, expressionMap, parameterIndex, isTransactionActive,
                   transactionStartedByUs, calls, error, completion, compiled>>

\* if (useTransaction === true && isTransactionActive === false) startTransaction()
StartTransaction ==
    /\ pc = "startTransaction"
    /\ IF ShouldStartTransaction
       THEN \E ok \in BOOLEAN :
              /\ calls' = Append(calls, Call("startTransaction", 0))
              /\ IF ok
                 THEN /\ isTransactionActive' = TRUE
                      /\ transactionStartedByUs' = TRUE
                      /\ pc' = StepAfter("startTransaction")
                      /\ UNCHANGED error
                 ELSE /\ error' = "startTransaction rejected"
                      /\ pc' = "catch"
                      /\ UNCHANGED <<isTransactionActive, transactionStartedByUs>>
       ELSE /\ pc' = StepAfter("startTransaction")
            /\ UNCHANGED <<calls, isTransactionActive, transactionStartedByUs, error>>
    /\ UNCHANGED <<envVars, expressionMap, parameterIndex, thrown, queryRunner, completion,
                   outcome, compiled>>

\* broadcastBeforeInsertEvent for every value set, then broadcastResult.wait()
BeforeInsert ==
    /\ pc = "beforeInsert"
    /\ IF ListenersOn
       THEN \E ok \in BOOLEAN :
              /\ calls' = calls \o BroadcastCalls("broadcastBeforeInsertEvent", GetValueSets(expressionMap))
              /\ IF ok
                 THEN pc' = StepAfter("beforeInsert") /\ UNCHANGED error
                 ELSE pc' = "catch" /\ error' = "before-insert listener rejected"
       ELSE /\ pc' = StepAfter("beforeInsert")
            /\ UNCHANGED <<calls, error>>
    /\ UNCHANGED <<envVars, expressionMap, parameterIndex, thrown, queryRunner, isTransactionActive,
                   transactionStartedByUs, completion, outcome, compiled>>

\* The extra returning columns execute() stores in the expression map.
ExtraReturningColumns(d, em) ==
    IF em.updateEntity /\ em.mainAlias.hasMetadata
       /\ ~(Len(GetValueSets(em)) > 1 /\ d = "oracle")
    THEN GetInsertionReturningColumns(d, em)
    ELSE em.extraReturningColumns

\* execute()'s returningColumns: the requested columns, then the extra
\* columns that are not among them.
WithExtraReturning(em, requested, extra) ==
    IF em.updateEntity /\ em.mainAlias.hasMetadata
    THEN requested \o SelectSeq(extra, LAMBDA c : ~Includes(requested, c))
    ELSE requested

ReturningColumns(d, em) ==
    WithExtraReturning(em, ResolveReturning(em), ExtraReturningColumns(d, em))

\* [declareSql, insertSql, selectOutputSql] without the nulls, joined.
Statements(d, returningColumns, insertSql) ==
    IF Len(returningColumns) > 0 /\ d = "mssql"
    THEN <<Sql("DECLARE @OutputTable"), Sql(";\n\n")>> \o insertSql
         \o <<Sql(";\n\n"), Sql("SELECT * FROM @OutputTable")>>
    ELSE insertSql

\* What the compilation leaves behind: the parameters and generated values
\* in the expression map, and the statement or the error.
Finish(result, returningColumns, extraReturningColumns) ==
    /\ expressionMap' = [expressionMap EXCEPT !.extraReturningColumns = extraReturningColumns,
                                              !.parameters = result.st.parameters,
                                              !.locallyGenerated = result.st.locallyGenerated]
    /\ parameterIndex' = result.st.parameterIndex
    /\ calls' = Append(calls, Call("getQueryAndParameters", 0))
    /\ IF result.threw # "none"
       THEN /\ error' = result.threw
            /\ pc' = "catch"
            /\ UNCHANGED compiled
       ELSE /\ compiled' = [sql |-> Statements(driver, returningColumns, result.sql),
                            parameters |-> result.parameters, query |-> result.query,
                            returningColumns |-> returningColumns]
            /\ pc' = StepAfter("compile")
            /\ UNCHANGED error

\* The returning columns, then getQueryAndParameters().
Compile ==
    /\ pc = "compile"
    /\ Finish(GetQueryAndParameters(driver,
                 [expressionMap EXCEPT !.extraReturningColumns = ExtraReturningColumns(driver, expressionMap)],
                 parameterIndex),
              ReturningColumns(driver, expressionMap),
              ExtraReturningColumns(driver, expressionMap))
    /\ UNCHANGED <<envVars, thrown, queryRunner, isTransactionActive, transactionStartedByUs,
                   completion, outcome>>

\* queryRunner.query(sql, parameters, true)
Query ==
    /\ pc = "query"
    /\ \E ok \in BOOLEAN :
         /\ calls' = Append(calls, Call("query", 0))
         /\ IF ok
            THEN pc' = StepAfter("query") /\ UNCHANGED error
            ELSE pc' = "catch" /\ error' = "query rejected"
    /\ UNCHANGED <<envVars, expressionMap, parameterIndex, thrown, queryRunner, isTransactionActive,
                   transactionStartedByUs, completion, outcome, compiled>>

\* returningResultsEntityUpdator.insert(insertResult, valueSets)
ApplyReturning ==
    /\ pc = "applyReturning"
    /\ IF UpdateEntityOn
       THEN \E ok \in BOOLEAN :
              /\ calls' = Append(calls, Call("returningResultsEntityUpdator.insert", 0))
              /\ IF ok
                 THEN pc' = StepAfter("applyReturning") /\ UNCHANGED error
                 ELSE pc' = "catch" /\ error' = "entity update rejected"
       ELSE /\ pc' = StepAfter("applyReturning")
            /\ UNCHANGED <<calls, error>>
    /\ UNCHANGED <<envVars, expressionMap, parameterIndex, thrown, queryRunner, isTransactionActive,
                   transactionStartedByUs, completion, outcome, compiled>>

\* broadcastAfterInsertEvent for every value set, then broadcastResult.wait()
AfterInsert ==
    /\ pc = "afterInsert"
    /\ IF ListenersOn
       THEN \E ok \in BOOLEAN :
              /\ calls' = calls \o BroadcastCalls("broadcastAfterInsertEvent", GetValueSets(expressionMap))
              /\ IF ok
                 THEN pc' = StepAfter("afterInsert") /\ UNCHANGED error
                 ELSE pc' = "catch" /\ error' = "after-insert listener rejected"
       ELSE /\ pc' = StepAfter("afterInsert")
            /\ UNCHANGED <<calls, error>>
    /\ UNCHANGED <<envVars, expressionMap, parameterIndex, thrown, queryRunner, isTransactionActive,
                   transactionStartedByUs, completion, outcome, compiled>>

\* if (transactionStartedByUs) commitTransaction(); return insertResult
Commit ==
    /\ pc = "commit"
    /\ IF ShouldCommit
       THEN \E ok \in BOOLEAN :
              /\ calls' = Append(calls, Call("commitTransaction", 0))
              /\ IF ok
                 THEN /\ isTransactionActive' = FALSE
                      /\ completion' = Return("insertResult")
                      /\ pc' = StepAfter("commit")
                      /\ UNCHANGED error
                 ELSE /\ error' = "commitTransaction rejected"
                      /\ pc' = "catch"
                      /\ UNCHANGED <<isTransactionActive, completion>>
       ELSE /\ completion' = Return("insertResult")
            /\ pc' = StepAfter("commit")
            /\ UNCHANGED <<calls, isTransactionActive, error>>
    /\ UNCHANGED <<envVars, expressionMap, parameterIndex, thrown, queryRunner,
                   transactionStartedByUs, outcome, compiled>>

\* catch (error): rollback if we started the transaction, its own failure
\* swallowed; then throw error.
Catch ==
    /\ pc = "catch"
    /\ IF ShouldRollback
       THEN \E ok \in BOOLEAN :
              /\ calls' = Append(calls, Call("rollbackTransaction", 0))
              /\ isTransactionActive' = IF ok THEN FALSE ELSE isTransactionActive
              /\ completion' = AfterRollback(ok, error)
       ELSE /\ completion' = Throw(error)
            /\ UNCHANGED <<calls, isTransactionActive>>
    /\ pc' = "finally"
    /\ UNCHANGED <<envVars, expressionMap, parameterIndex, thrown, queryRunner,
                   transactionStartedByUs, error, outcome, compiled>>

\* finally: release the query runner if execute() created it. A rejected
\* release() replaces the completion of the try/catch.
Finally ==
    /\ pc = "finally"
    /\ IF ShouldRelease
       THEN \E ok \in BOOLEAN :
              /\ calls' = Append(calls, Call("release", 0))
              /\ outcome' = IF ok THEN completion ELSE Throw("release rejected")
       ELSE /\ outcome' = completion
            /\ UNCHANGED calls
    /\ pc' = "done"
    /\ UNCHANGED <<envVars, expressionMap, parameterIndex, thrown, queryRunner, isTransactionActive,
                   transactionStartedByUs, error, completion, compiled>>

\* What a direct getQueryAndParameters() hands back or throws.
Hand(result) ==
    /\ expressionMap' = [expressionMap EXCEPT !.parameters = result.st.parameters,
                                              !.locallyGenerated = result.st.locallyGenerated]
    /\ parameterIndex' = result.st.parameterIndex
    /\ IF result.threw # "none"
       THEN /\ outcome' = Throw(result.threw)
            /\ UNCHANGED compiled
       ELSE /\ outcome' = Return("[sql, parameters]")
            /\ compiled' = [sql |-> result.sql, parameters |-> result.parameters,
                            query |-> result.query, returningColumns |-> <<>>]

\* getQueryAndParameters() called on the builder directly.
GetQueryAndParametersCall ==
    /\ pc = "idle"
    /\ Hand(GetQueryAndParameters(driver, expressionMap, parameterIndex))
    /\ pc' = "compiled"
    /\ thrown' = "none"
    /\ UNCHANGED <<envVars, queryRunner, isTransactionActive, transactionStartedByUs, calls,
                   error, completion>>

----------------------------------------------------------------------------
(* Inputs. *)

Entry(key, value) == [key |-> key, value |-> value]
Array(sets) == [form |-> "array", sets |-> sets]
Object(set) == [form |-> "object", sets |-> <<set>>]

\* The values a caller gives a column of the model's tables.
ValuesFor(name) ==
    CASE name = "id" -> {Undefined, Null, Lit("7")}
      [] name = "name" -> {Lit("a"), RawFn("NOW()")}
      [] name = "uid" -> {Undefined, Null, Lit("u")}
      [] name = "version" -> {Undefined, Lit("2")}
      [] name = "geom" -> {Undefined, Lit("POINT")}
      [] OTHER -> {Undefined}

\* The value sets for a table: one entry per column.
ValueSetsOf(columns) ==
    {[j \in 1..Len(columns) |-> Entry(columns[j].propertyPath, f[j])] :
        f \in {g \in [1..Len(columns) -> UNION {ValuesFor(columns[j].propertyPath) : j \in 1..Len(columns)}] :
                  \A j \in 1..Len(columns) : g[j] \in ValuesFor(columns[j].propertyPath)}}

\* The value sets for a table without metadata.
PlainValueSets ==
    {<<>>, <<Entry("name", Lit("a"))>>, <<Entry("name", RawFn("NOW()"))>>,
     <<Entry("name", Undefined), Entry("id", Lit("7"))>>}

PoolOf(mainAlias) ==
    IF mainAlias.hasMetadata THEN ValueSetsOf(mainAlias.columns) ELSE PlainValueSets

\* values() arguments: arrays of up to MaxSets value sets, or one object.
ValuesArguments(mainAlias) ==
    {Array(sets) : sets \in UNION {[1..n -> PoolOf(mainAlias)] : n \in 0..MaxSets}}
    \cup {Object(set) : set \in PoolOf(mainAlias)}

\* into(target, columns) results.
Targets ==
    {[mainAlias |-> Metadata(UserTable), insertColumns |-> <<>>],
     [mainAlias |-> Metadata(UserTable), insertColumns |-> <<"id", "name">>],
     [mainAlias |-> Metadata(UserTable), insertColumns |-> <<"name">>],
     [mainAlias |-> Metadata(DocTable), insertColumns |-> <<>>],
     [mainAlias |-> Metadata(GeoTable), insertColumns |-> <<>>],
     [mainAlias |-> NoMetadata, insertColumns |-> <<>>]}

\* Parameters the caller bound with setParameter before compiling.
CallerParameters == {<<>>, <<[s |-> "name", n |-> -1, value |-> Lit("bound")]>>}

ConflictTargets ==
    {[kind |-> "undefined", list |-> <<>>], [kind |-> "array", list |-> <<"id">>]}

OverwriteArguments == {[isArray |-> TRUE, list |-> <<"name">>]}

\* The deprecated statement object of orUpdate: undefined, or with columns.
StatementArguments ==
    {[isArray |-> FALSE, conflict_target |-> [kind |-> "undefined", list |-> <<>>],
      columns |-> [isArray |-> FALSE, list |-> <<>>], overwrite |-> [isArray |-> FALSE, list |-> <<>>]],
     [isArray |-> FALSE, conflict_target |-> [kind |-> "string", list |-> <<"uq_name">>],
      columns |-> [isArray |-> TRUE, list |-> <<"name">>], overwrite |-> [isArray |-> FALSE, list |-> <<>>]]}

ReturningArguments ==
    {[kind |-> "array", text |-> "", list |-> list] : list \in {<<"id">>, <<"id", "id">>, <<"name">>}}

----------------------------------------------------------------------------
(* Spec: a builder is configured and execute() runs once. *)

ExecuteDrivers == {"postgres", "mysql", "mssql", "sap"}

\* The names of the records execute() is run with.
NameOf(i) == CASE i = 1 -> "a" [] i = 2 -> "b" [] OTHER -> "c"

\* The value sets execute() is run with: {name: "a"}, {name: "b"}, ...
ExecuteValues ==
    {Array([i \in 1..n |-> <<Entry("name", Lit(NameOf(i)))>>]) : n \in 0..MaxSets}

Init ==
    /\ driver \in ExecuteDrivers
    /\ thisQueryRunner \in {"given", "none"}
    /\ isTransactionActive \in BOOLEAN
    /\ activeAtEntry = isTransactionActive
    /\ \E mainAlias \in {Metadata(UserTable), NoMetadata}, useTransaction \in BOOLEAN, callListeners \in BOOLEAN :
         expressionMap = NewExpressionMap(mainAlias, <<>>, useTransaction, callListeners, <<>>)
    /\ InitRun

Configure ==
    \/ \E values \in ExecuteValues : Values(values)
    \/ \E returning \in ReturningArguments : Returning(returning)
    \/ \E output \in ReturningArguments : Output(output)
    \/ UpdateEntity(FALSE)
    \/ OrIgnore(TRUE)
    \/ OnConflict("(id) DO NOTHING")
    \/ \E overwrite \in OverwriteArguments : OrUpdate(overwrite, [kind |-> "undefined", list |-> <<>>])

Next ==
    \/ Configure
    \/ Execute
    \/ StartTransaction
    \/ BeforeInsert
    \/ Compile
    \/ Query
    \/ ApplyReturning
    \/ AfterInsert
    \/ Commit
    \/ Catch
    \/ Finally

Spec == Init /\ [][Next]_vars

----------------------------------------------------------------------------
(* SpecCompile: getQueryAndParameters() on every input of the model. *)

InitCompile ==
    /\ driver \in Drivers
    /\ thisQueryRunner = "none"
    /\ isTransactionActive = FALSE
    /\ activeAtEntry = FALSE
    /\ \E target \in Targets, parameters \in CallerParameters :
         \E values \in ValuesArguments(target.mainAlias) :
            expressionMap = [NewExpressionMap(target.mainAlias, target.insertColumns, FALSE, TRUE, parameters)
                                EXCEPT !.valuesSet = values]
    /\ InitRun

NextCompile ==
    \/ OrIgnore(TRUE)
    \/ OnConflict("(id) DO NOTHING")
    \/ \E overwrite \in OverwriteArguments, conflictTarget \in ConflictTargets : OrUpdate(overwrite, conflictTarget)
    \/ \E statement \in StatementArguments : OrUpdate(statement, [kind |-> "undefined", list |-> <<>>])
    \/ GetQueryAndParametersCall

SpecCompile == InitCompile /\ [][NextCompile]_vars

----------------------------------------------------------------------------
(* Properties of execute(), stated over the log of the calls it made. *)

Called(op) == \E i \in 1..Len(calls) : calls[i].op = op
CountCalls(op) == Cardinality({i \in 1..Len(calls) : calls[i].op = op})

\* execute() went past the empty short-circuit: it obtained a query runner.
Entered == queryRunner # "none"

\* The number of value sets of the insert being executed.
NumberOfValueSets == Len(GetValueSets(expressionMap))

\* The builder has no query runner of the caller's: execute() creates one.
OwnsQueryRunner == thisQueryRunner = "none"

\* C1: for every execute() with at least one value set, startTransaction is
\* called if and only if useTransaction is enabled and the query runner had
\* no active transaction at entry; when a transaction was already active at
\* entry, or transactions are disabled, neither commitTransaction nor
\* rollbackTransaction is ever called.
TransactionOwnership ==
    /\ (Entered /\ pc # "startTransaction")
          => (Called("startTransaction") <=> (expressionMap.useTransaction /\ ~activeAtEntry))
    /\ (Entered /\ (activeAtEntry \/ ~expressionMap.useTransaction))
          => (~Called("commitTransaction") /\ ~Called("rollbackTransaction"))

\* A failed execute() inside the caller's transaction: nothing to roll back.
FailedInsideCallersTransaction ==
    /\ pc = "done"
    /\ activeAtEntry /\ expressionMap.useTransaction
    /\ error = "query rejected"
    /\ outcome = Throw("query rejected")

\* C2: when a step fails after execute() started the transaction itself,
\* rollbackTransaction is attempted exactly once and the caller gets the
\* original failure, never the error of the rollback or of a later cleanup
\* step such as release().
OriginalErrorReachesCaller ==
    (pc = "done" /\ error # "none" /\ transactionStartedByUs)
       => (CountCalls("rollbackTransaction") = 1 /\ outcome = Throw(error))

\* C3: release() is called exactly once, as the last call, whenever execute()
\* created the query runner, on the success path and on every failure path;
\* it is never called on a query runner of the caller's.
ReleaseDiscipline ==
    /\ CountCalls("release") <= 1
    /\ Called("release") => (pc = "done" /\ OwnsQueryRunner /\ calls[Len(calls)].op = "release")
    /\ (pc = "done" /\ Entered /\ OwnsQueryRunner) => CountCalls("release") = 1
    /\ ~OwnsQueryRunner => ~Called("release")

\* The commit failed, the rollback was attempted, and the runner was released.
ReleasedAfterFailedCommit ==
    /\ pc = "done"
    /\ OwnsQueryRunner
    /\ error = "commitTransaction rejected"
    /\ Called("rollbackTransaction")
    /\ Called("release")

\* C4: execute() on an empty list of value sets returns a new, empty
\* InsertResult and obtains no query runner, starts no transaction,
\* broadcasts nothing, compiles nothing and dispatches no query.
EmptyInsertHasNoEffect ==
    (pc = "done" /\ ~ValuesMissing(expressionMap) /\ NumberOfValueSets = 0)
       => /\ outcome = Return("new InsertResult")
          /\ calls = <<>>
          /\ queryRunner = "none"
          /\ ~transactionStartedByUs
          /\ isTransactionActive = activeAtEntry
          /\ compiled = NothingCompiled
          /\ parameterIndex = 0

\* An empty insert on a builder that would otherwise open a transaction and
\* call listeners.
EmptyInsertReturned ==
    /\ pc = "done"
    /\ expressionMap.valuesSet.form = "array"
    /\ NumberOfValueSets = 0
    /\ expressionMap.useTransaction /\ ~activeAtEntry
    /\ ListenersOn
    /\ OwnsQueryRunner

\* The position in the log of the wait that follows the before-insert
\* broadcasts of n value sets.
BeforeInsertWait(n) == (IF Called("startTransaction") THEN 1 ELSE 0) + n + 1

\* The log holds one before-insert broadcast per value set, in order, then
\* the joint wait at position w, and nothing is compiled or sent before it.
BroadcastThenWait(n, w) ==
    /\ Len(calls) >= w
    /\ \A i \in 1..n : calls[w - n - 1 + i] = Call("broadcastBeforeInsertEvent", i)
    /\ calls[w] = Call("wait", 0)
    /\ CountCalls("broadcastBeforeInsertEvent") = n
    /\ \A j \in 1..Len(calls) : calls[j].op \in {"getQueryAndParameters", "query"} => j > w

\* C5: with listeners enabled on a target with metadata, execute() issues
\* exactly one before-insert broadcast per value set, all of them before the
\* single joint wait, and compiles only after that wait; when the wait
\* fails, nothing is compiled and query is never called.
BeforeInsertBroadcast ==
    /\ (Entered /\ ListenersOn /\ pc \notin {"startTransaction", "beforeInsert"}
          /\ error # "startTransaction rejected")
          => BroadcastThenWait(NumberOfValueSets, BeforeInsertWait(NumberOfValueSets))
    /\ error = "before-insert listener rejected"
          => (~Called("getQueryAndParameters") /\ ~Called("query"))

\* Two value sets were broadcast inside a new transaction and the wait failed.
BeforeInsertWaitFailed ==
    /\ pc = "done"
    /\ error = "before-insert listener rejected"
    /\ NumberOfValueSets = 2
    /\ Called("startTransaction")
    /\ Called("rollbackTransaction")

\* The calls of a successful execute(), from the builder's configuration and
\* the state of the query runner at entry.
SuccessfulCalls(n) ==
    (IF expressionMap.useTransaction /\ ~activeAtEntry THEN <<Call("startTransaction", 0)>> ELSE <<>>)
    \o (IF ListenersOn
        THEN [i \in 1..n |-> Call("broadcastBeforeInsertEvent", i)] \o <<Call("wait", 0)>>
        ELSE <<>>)
    \o <<Call("getQueryAndParameters", 0), Call("query", 0)>>
    \o (IF UpdateEntityOn THEN <<Call("returningResultsEntityUpdator.insert", 0)>> ELSE <<>>)
    \o (IF ListenersOn
        THEN [i \in 1..n |-> Call("broadcastAfterInsertEvent", i)] \o <<Call("wait", 0)>>
        ELSE <<>>)
    \o (IF expressionMap.useTransaction /\ ~activeAtEntry THEN <<Call("commitTransaction", 0)>> ELSE <<>>)
    \o (IF OwnsQueryRunner THEN <<Call("release", 0)>> ELSE <<>>)

\* commitTransaction at position i comes after the wait for the after-insert
\* listeners of all n value sets.
CommitAfterListeners(i, n) ==
    \E j \in 1..Len(calls) :
        /\ j + 1 < i
        /\ calls[j] = Call("broadcastAfterInsertEvent", n)
        /\ calls[j + 1] = Call("wait", 0)

\* C6: on the success path the steps happen in this order: optional
\* transaction start, before-insert hooks, compile, query, returning results
\* applied to the records, after-insert hooks, commit when execute() started
\* the transaction, release when it created the runner. The commit never
\* precedes the completion of the after-insert hooks, and a failing
\* after-insert hook prevents it.
SuccessPathOrder ==
    /\ (pc = "done" /\ outcome = Return("insertResult"))
          => calls = SuccessfulCalls(NumberOfValueSets)
    /\ \A i \in 1..Len(calls) :
          (calls[i].op = "commitTransaction" /\ ListenersOn)
             => CommitAfterListeners(i, NumberOfValueSets)
    /\ error = "after-insert listener rejected" => ~Called("commitTransaction")

\* A successful execute() that took every optional step for two value sets.
FullSuccessPath ==
    /\ pc = "done"
    /\ outcome = Return("insertResult")
    /\ transactionStartedByUs
    /\ ListenersOn /\ UpdateEntityOn
    /\ OwnsQueryRunner
    /\ NumberOfValueSets = 2

\* C7: on a dialect without upsert support, compiling an insert with
\* orIgnore, onConflict or orUpdate set fails with the unsupported-upsert
\* error, and execute() never calls query.
UnsupportedUpsertFails ==
    (/\ SupportedUpsertType(driver) = "undefined"
     /\ (expressionMap.onIgnore \/ expressionMap.onConflict # "" \/ expressionMap.onUpdate.set)
     /\ Called("getQueryAndParameters"))
       => (error = "TypeORMError" /\ ~Called("query"))

\* returning() or output() on a dialect without returning support leaves the
\* stored clause unset; the error is thrown by the configuration call, before
\* anything is compiled or executed.
ReturningStaysUnset ==
    /\ ~IsReturningSqlSupported(driver) => expressionMap.returning = NoReturning
    /\ thrown = "ReturningStatementNotSupportedError"
          => (~IsReturningSqlSupported(driver) /\ pc = "idle" /\ calls = <<>>
              /\ compiled = NothingCompiled)

\* A step that is a call of returning() or output().
ReturningCalled == \E r \in ReturningArguments : Returning(r) \/ Output(r)

\* C8: returning() and output() on a dialect that does not support returning
\* fail at once with the returning-not-supported error and leave the stored
\* returning clause unchanged; no sequence of builder calls sets a returning
\* clause on such a dialect.
ReturningRejected ==
    /\ []ReturningStaysUnset
    /\ [][(ReturningCalled /\ ~IsReturningSqlSupported(driver))
             => (/\ thrown' = "ReturningStatementNotSupportedError"
                 /\ expressionMap' = expressionMap
                 /\ pc' = "idle")]_vars

\* returning() threw on mysql after orIgnore() had been configured.
ReturningThrew ==
    /\ thrown = "ReturningStatementNotSupportedError"
    /\ driver = "mysql"
    /\ expressionMap.onIgnore
    /\ expressionMap.returning = NoReturning

----------------------------------------------------------------------------
(* Properties of the compiled statement. *)

\* getQueryAndParameters() returned a statement.
StatementCompiled == pc = "compiled" /\ outcome.kind = "return"

\* The placeholders of the final text: the escaped ones and the parameter
\* names that the escaping left in the text.
Placeholders(sql) == SelectSeq(sql, LAMBDA t : t.k \in {"placeholder", "param"})

\* The parameter names in getQuery()'s text, in order of occurrence.
References(query) == SelectSeq(query, LAMBDA t : t.k = "param")

\* The references to the parameters that the compile created.
CreatedReferences(query) == SelectSeq(References(query), LAMBDA t : t.s = "orm_param")

\* The parameters that the compile created, in order of creation.
CreatedParameters(parameters) == SelectSeq(parameters, LAMBDA q : q.s = "orm_param")

\* The i-th placeholder of the final text is the i-th entry of the parameter
\* array, which holds the value bound to the i-th name of the text.
Aligned(placeholders, references, bound, array) ==
    /\ Len(placeholders) = Len(array)
    /\ Len(references) = Len(array)
    /\ \A i \in 1..Len(array) :
          /\ placeholders[i] = Placeholder(i)
          /\ Binds(bound, references[i])
          /\ array[i] = Bound(bound, references[i])

\* Every parameter that the compile created is named in the text exactly
\* once, and the names occur in the order of creation.
ReferencedInOrder(references, created) ==
    /\ Len(references) = Len(created)
    /\ \A i \in 1..Len(created) :
          references[i].s = created[i].s /\ references[i].n = created[i].n

\* The caller bound a parameter for every column of an orUpdate column list.
ColumnsBoundByCaller ==
    expressionMap.onUpdate.columns.isArray
       => \A k \in 1..Len(expressionMap.onUpdate.columns.list) :
             \E i \in 1..Len(expressionMap.parameters) :
                /\ expressionMap.parameters[i].s = expressionMap.onUpdate.columns.list[k]
                /\ expressionMap.parameters[i].n = -1

IgnoreWinsOnConflict ==
    (/\ StatementCompiled
     /\ SupportedUpsertType(driver) = "on-conflict-do-update"
     /\ expressionMap.onIgnore)
       => /\ CountSql(compiled.sql, " ON CONFLICT DO NOTHING ") = 1
          /\ CountSql(compiled.sql, " DO UPDATE SET ") = 0
          /\ CountSql(compiled.sql, " ON DUPLICATE KEY UPDATE ") = 0
          /\ CountSql(compiled.sql, " ON CONFLICT ") = 0
          /\ CountSql(compiled.sql, "ON CONFLICT") = 0

\* onIgnore compiled on cockroachdb with onConflict and orUpdate set as well.
IgnoreCompiledWithOtherPolicies ==
    /\ StatementCompiled
    /\ driver = "cockroachdb"
    /\ expressionMap.onIgnore
    /\ expressionMap.onConflict # ""
    /\ expressionMap.onUpdate.set
    /\ expressionMap.onUpdate.overwrite.isArray

\* An orUpdate policy with an overwrite list or a columns list is set.
UpdateListSet ==
    /\ expressionMap.onUpdate.set
    /\ (expressionMap.onUpdate.overwrite.isArray \/ expressionMap.onUpdate.columns.isArray)

\* No piece of a conflict target, and no ON CONFLICT clause, is in the text.
NoConflictTarget(sql) ==
    /\ CountSql(sql, "ON CONFLICT") = 0
    /\ CountSql(sql, " ON CONFLICT ") = 0
    /\ CountSql(sql, " ON CONFLICT DO NOTHING ") = 0
    /\ CountSql(sql, " ON CONSTRAINT ") = 0
    /\ CountSql(sql, " ( ") = 0
    /\ CountSql(sql, " DO UPDATE SET ") = 0
    /\ \A i \in 1..Len(sql) : sql[i] # RawSql("(id) DO NOTHING") /\ sql[i] # Ident("uq_name")

\* C11: on a dialect with ON DUPLICATE KEY UPDATE, the compiled text has an
\* ON DUPLICATE KEY UPDATE clause if and only if an orUpdate policy with an
\* overwrite list or a columns list is set (a plain orIgnore() writes no
\* upsert clause), and a conflict target given to orUpdate never appears.
DuplicateKeyUpdateIffUpdateList ==
    (StatementCompiled /\ SupportedUpsertType(driver) = "on-duplicate-key-update")
       => /\ CountSql(compiled.sql, " ON DUPLICATE KEY UPDATE ") = (IF UpdateListSet THEN 1 ELSE 0)
          /\ NoConflictTarget(compiled.sql)

\* An overwrite list with a conflict target compiled on aurora, orIgnore set.
DuplicateKeyUpdateCompiledWithTarget ==
    /\ StatementCompiled
    /\ driver = "aurora-data-api"
    /\ expressionMap.onIgnore
    /\ expressionMap.onUpdate.overwrite.isArray
    /\ expressionMap.onUpdate.conflict.kind = "array"
    /\ CountSql(compiled.sql, " ON DUPLICATE KEY UPDATE ") = 1

\* The column takes part in the insert: it is in the allow-list when one is
\* given, and is insertable otherwise.
Participates(em, column) ==
    IF Len(em.insertColumns) > 0
    THEN \E k \in 1..Len(em.insertColumns) : em.insertColumns[k] = column.propertyPath
    ELSE column.isInsert

\* Some value set holds a value for the column that is not null or undefined.
HasSuppliedValue(em, column) ==
    \E i \in 1..Len(em.valuesSet.sets) :
       \E k \in 1..Len(em.valuesSet.sets[i]) :
          /\ em.valuesSet.sets[i][k].key = column.propertyPath
          /\ em.valuesSet.sets[i][k].value.t \notin {"undefined", "null"}

\* A participating primary, generated, increment column with a supplied value.
IdentityColumnSupplied(em, column) ==
    /\ column.isPrimary /\ column.isGenerated /\ column.generationStrategy = "increment"
    /\ Participates(em, column)
    /\ HasSuppliedValue(em, column)

\* The text is SET IDENTITY_INSERT t ON; INSERT ...; SET IDENTITY_INSERT t OFF.
Wrapped(sql) ==
    /\ Len(sql) > 6
    /\ SubSeq(sql, 1, 4) = <<Sql("SET IDENTITY_INSERT "), Ident(TableName), Sql(" ON; "), Sql("INSERT ")>>
    /\ SubSeq(sql, Len(sql) - 2, Len(sql))
          = <<Sql("; SET IDENTITY_INSERT "), Ident(TableName), Sql(" OFF")>>
    /\ CountSql(sql, "SET IDENTITY_INSERT ") = 1
    /\ CountSql(sql, "; SET IDENTITY_INSERT ") = 1

\* No part of the wrapper is in the text.
Unwrapped(sql) ==
    /\ CountSql(sql, "SET IDENTITY_INSERT ") = 0
    /\ CountSql(sql, "; SET IDENTITY_INSERT ") = 0
    /\ CountSql(sql, " ON; ") = 0
    /\ CountSql(sql, " OFF") = 0

\* The name is in the column list of the INSERT: between the first "(" and
\* the first ")" of the text.
InColumnList(sql, name) ==
    \E i, j, k \in 1..Len(sql) :
       /\ i < j /\ j < k
       /\ sql[i] = Sql("(") /\ sql[k] = Sql(")")
       /\ \A h \in 1..(k - 1) : sql[h] # Sql(")") /\ (h < i => sql[h] # Sql("("))
       /\ sql[j] = Ident(name)

\* C12: on SQL Server the compiled statement is wrapped in SET IDENTITY_INSERT
\* t ON / OFF if and only if some participating column (in the allow-list
\* when one is given, insertable otherwise) is a primary, generated,
\* increment column with a value that is not null or undefined in at least
\* one value set; that column is then in the INSERT column list; on every
\* other dialect the statement is never wrapped.
IdentityInsertIffSupplied ==
    StatementCompiled
       => /\ driver # "mssql" => Unwrapped(compiled.sql)
          /\ driver = "mssql" =>
               IF \E k \in 1..Len(expressionMap.mainAlias.columns) :
                     IdentityColumnSupplied(expressionMap, expressionMap.mainAlias.columns[k])
               THEN /\ Wrapped(compiled.sql)
                    /\ \A k \in 1..Len(expressionMap.mainAlias.columns) :
                          IdentityColumnSupplied(expressionMap, expressionMap.mainAlias.columns[k])
                             => InColumnList(compiled.sql, expressionMap.mainAlias.columns[k].databaseName)
               ELSE Unwrapped(compiled.sql)

\* Two value sets on SQL Server with no allow-list, one with a value for id
\* and one with null: the statement is wrapped and lists id.
IdentityInsertWrapped ==
    /\ StatementCompiled
    /\ driver = "mssql"
    /\ expressionMap.insertColumns = <<>>
    /\ Len(expressionMap.valuesSet.sets) = 2
    /\ GetEntityValue(Column("id"), expressionMap.valuesSet.sets[1]) = Lit("7")
    /\ GetEntityValue(Column("id"), expressionMap.valuesSet.sets[2]) = Null
    /\ Wrapped(compiled.sql)
    /\ InColumnList(compiled.sql, "id")

\* The entries of the locally-generated map for a column of value set i
\* (value sets are numbered from 1 here and from 0 in the map).
LocallyGenerated(i, column) ==
    {g \in expressionMap.locallyGenerated :
        g.index = i - 1 /\ g.propertyPath = column.propertyPath}

\* The positions of a value in the parameter array.
SentAt(value) == {k \in 1..Len(compiled.parameters) : compiled.parameters[k] = value}

\* The column of value set i gets a locally generated uuid: it is a selected
\* uuid-generated column, the set holds no value for it, and the driver
\* generates no uuids.
NeedsLocalUuid(i, column) ==
    /\ column.isGenerated /\ column.generationStrategy = "uuid"
    /\ Participates(expressionMap, column)
    /\ ~IsUUIDGenerationSupported(driver)
    /\ \A k \in 1..Len(expressionMap.valuesSet.sets[i]) :
          expressionMap.valuesSet.sets[i][k].key = column.propertyPath
             => expressionMap.valuesSet.sets[i][k].value.t = "undefined"

\* Value set i has exactly one generated value for the column, it is not
\* empty, it is sent exactly once as a parameter, and it differs from and
\* follows the values generated for earlier value sets.
GeneratedAndSent(i, column) ==
    /\ Cardinality(LocallyGenerated(i, column)) = 1
    /\ \A g \in LocallyGenerated(i, column) :
          /\ g.value.t = "lit" /\ g.value.v = "uuid4"
          /\ Cardinality(SentAt(g.value)) = 1
          /\ \A h \in 1..(i - 1) : \A e \in LocallyGenerated(h, column) :
                /\ e.value # g.value
                /\ \A k \in SentAt(g.value), m \in SentAt(e.value) : m < k

\* C13: for a uuid-generated column with no supplied value in value set i,
\* on a dialect without native uuid generation, the compile generates a
\* non-empty value, binds it as a parameter of the statement and stores the
\* same value under index i of the locally-generated map; a value set that
\* supplied its own value gets no entry for that column.
LocalUuidSentAndStored ==
    (StatementCompiled /\ expressionMap.mainAlias.hasMetadata)
       => \A i \in 1..Len(expressionMap.valuesSet.sets) :
             \A j \in 1..Len(expressionMap.mainAlias.columns) :
                IF NeedsLocalUuid(i, expressionMap.mainAlias.columns[j])
                THEN GeneratedAndSent(i, expressionMap.mainAlias.columns[j])
                ELSE LocallyGenerated(i, expressionMap.mainAlias.columns[j]) = {}

\* On mysql the first value set supplied its uid and the second did not: the
\* map holds one value, under the index of the second set.
LocalUuidForSecondSet ==
    /\ StatementCompiled
    /\ driver = "mysql"
    /\ Len(expressionMap.valuesSet.sets) = 2
    /\ GetEntityValue(Column("uid"), expressionMap.valuesSet.sets[1]) = Lit("u")
    /\ GetEntityValue(Column("uid"), expressionMap.valuesSet.sets[2]) = Undefined
    /\ Cardinality(expressionMap.locallyGenerated) = 1
    /\ Cardinality(LocallyGenerated(2, Column("uid"))) = 1
    /\ \E k \in 1..Len(expressionMap.mainAlias.columns) :
          expressionMap.mainAlias.columns[k] = Column("uid")

----------------------------------------------------------------------------
(* Properties of the statement execute() compiles. *)

\* execute() compiled the insert of {name: "a"}, {name: "b"} with no
\* allow-list into the table (id auto-increment, name), on a driver that does
\* not list the auto-increment column.
TwoRecordScenario ==
    /\ compiled # NothingCompiled
    /\ expressionMap.mainAlias = Metadata(UserTable)
    /\ expressionMap.insertColumns = <<>>
    /\ expressionMap.valuesSet = Array(<<<<Entry("name", Lit("a"))>>, <<Entry("name", Lit("b"))>>>>)
    /\ driver \notin {"oracle", "sqlite", "mysql", "aurora-data-api"}

\* The column list of the INSERT is exactly the given names.
ColumnListIs(query, names) ==
    \E i \in 2..Len(query) :
       /\ query[i - 1] = Sql("INTO ") /\ query[i] = Ident(TableName)
       /\ Len(query) >= i + Len(names) + 2
       /\ SubSeq(query, i + 1, i + Len(names) + 2) = <<Sql("(")>> \o names \o <<Sql(")")>>

\* The VALUES body is exactly two tuples, in value-set order, each of one
\* placeholder, bound to a and b.
TwoTuples(sql, parameters) ==
    /\ CountSql(sql, " VALUES ") = 1
    /\ \E v \in 1..Len(sql) :
          /\ sql[v] = Sql(" VALUES ")
          /\ Len(sql) >= v + 6
          /\ SubSeq(sql, v + 1, v + 6)
                = <<Sql("("), Placeholder(1), Sql("), "), Sql("("), Placeholder(2), Sql(")")>>
    /\ CountSql(sql, "(") = 3
    /\ Count(sql, "placeholder") = 2
    /\ Len(parameters) = 2
    /\ parameters[1].t = "lit" /\ parameters[1].v = "a"
    /\ parameters[2].t = "lit" /\ parameters[2].v = "b"

\* The text has no RETURNING and no OUTPUT clause.
NoReturningClause(sql) ==
    /\ CountSql(sql, " RETURNING ") = 0
    /\ CountSql(sql, " OUTPUT ") = 0
    /\ CountSql(sql, "DECLARE @OutputTable") = 0

\* C14 as stated: the insert of the two records compiles to the column list
\* (name), a VALUES body of exactly two tuples in value-set order with one
\* placeholder each, and no RETURNING or OUTPUT clause when none was
\* requested.
TwoRecordInsertNeverReturns ==
    TwoRecordScenario
       => /\ ColumnListIs(compiled.query, <<Ident("name")>>)
          /\ TwoTuples(compiled.sql, compiled.parameters)
          /\ expressionMap.returning = NoReturning => NoReturningClause(compiled.sql)

\* C14 amended: the column list and the VALUES body are as stated; with no
\* returning requested, the statement has no RETURNING or OUTPUT clause
\* exactly when the update-entity feature adds no returning columns, that
\* is, when updateEntity is off or the driver does not support returning.
TwoRecordInsertCompiled ==
    TwoRecordScenario
       => /\ ColumnListIs(compiled.query, <<Ident("name")>>)
          /\ TwoTuples(compiled.sql, compiled.parameters)
          /\ expressionMap.returning = NoReturning
                => (NoReturningClause(compiled.sql)
                      <=> ~(UpdateEntityOn /\ IsReturningSqlSupported(driver)))

\* The two records were inserted on postgres with updateEntity off and no
\* returning requested.
TwoRecordsInserted ==
    /\ TwoRecordScenario
    /\ driver = "postgres"
    /\ pc = "done" /\ outcome = Return("insertResult")
    /\ expressionMap.returning = NoReturning
    /\ ~expressionMap.updateEntity
    /\ NoReturningClause(compiled.sql)

----------------------------------------------------------------------------
(* Properties of the values of the compiled statement. *)

\* The rule that decides the value of a column, the first that matches.
RuleFor(column, value) ==
    IF column.isVersion /\ value.t = "undefined" THEN "a"
    ELSE IF column.isDiscriminator THEN "b"
    ELSE IF /\ column.isGenerated /\ column.generationStrategy = "uuid"
            /\ value.t = "undefined" /\ ~IsUUIDGenerationSupported(driver) THEN "c"
    ELSE IF value.t = "undefined" THEN "d"
    ELSE IF value.t = "function" THEN "e"
    ELSE "f"

\* The token is a parameter that the compile created and bound.
IsCreated(token) ==
    /\ token.k = "param" /\ token.s = "orm_param"
    /\ Cardinality({k \in 1..Len(expressionMap.parameters) :
                       /\ expressionMap.parameters[k].s = token.s
                       /\ expressionMap.parameters[k].n = token.n}) = 1

\* The token is what the rule says for the column and the supplied value.
Obeys(rule, token, column, value) ==
    CASE rule = "a" -> token = Sql("1")
      [] rule = "b" -> /\ IsCreated(token)
                       /\ Bound(expressionMap.parameters, token)
                             = Lit(expressionMap.mainAlias.discriminatorValue)
      [] rule = "c" -> /\ IsCreated(token)
                       /\ Bound(expressionMap.parameters, token).v = "uuid4"
      [] rule = "d" -> \/ token = Sql("DEFAULT")
                       \/ token = Sql("NULL") /\ ~column.hasDefault
                       \/ token = DefaultOf(column.databaseName) /\ column.hasDefault
      [] rule = "e" -> token = RawSql(value.v)
      [] rule = "f" -> /\ IsCreated(token)
                       /\ Bound(expressionMap.parameters, token).t = value.t
                       /\ Bound(expressionMap.parameters, token).v = value.v
                       /\ value.t = "lit"
                             => Bound(expressionMap.parameters, token).prep \in {"persistent", "mssql"}

\* The tokens of the text that stand for values: created parameters, raw
\* expressions (the raw onConflict statement aside), defaults and literals.
ValueTokens(query) ==
    SelectSeq(query, LAMBDA t :
        \/ t.k = "param" /\ t.s = "orm_param"
        \/ t.k = "raw" /\ t.s # expressionMap.onConflict
        \/ t.k = "default"
        \/ t \in {Sql("1"), Sql("DEFAULT"), Sql("NULL")})

\* Every column of every value set has one token, in order, that obeys the
\* rule, and a parameter was created for the rules b, c and f only.
ValuesObeyRules(tokens, sets, columns) ==
    /\ Len(tokens) = Len(sets) * Len(columns)
    /\ \A i \in 1..Len(sets) : \A j \in 1..Len(columns) :
          Obeys(RuleFor(columns[j], GetEntityValue(columns[j], sets[i])),
                tokens[(i - 1) * Len(columns) + j],
                columns[j], GetEntityValue(columns[j], sets[i]))
    /\ Len(CreatedParameters(expressionMap.parameters))
          = Cardinality({c \in (1..Len(sets)) \X (1..Len(columns)) :
                RuleFor(columns[c[2]], GetEntityValue(columns[c[2]], sets[c[1]])) \in {"b", "c", "f"}})

\* C15: for each value set and each selected column the value is chosen by
\* the first rule that matches: (a) version column with no value: literal 1;
\* (b) discriminator column: the discriminator constant; (c) uuid column with
\* no value on a dialect without uuid generation: a fresh uuid parameter;
\* (d) undefined: the default marker (DEFAULT, or NULL or the declared
\* default); (e) raw expression: its text, no parameter; (f) any other value:
\* normalized by the driver and bound as exactly one parameter.
ValueChosenByFirstRule ==
    (StatementCompiled /\ expressionMap.mainAlias.hasMetadata
        /\ Len(GetInsertedColumns(driver, expressionMap)) > 0)
       => ValuesObeyRules(ValueTokens(compiled.query), expressionMap.valuesSet.sets,
                          GetInsertedColumns(driver, expressionMap))

\* Two value sets of the table with uuid, version and discriminator columns
\* on mysql: the first leaves uid and version out, the second supplies them.
RulesMetInOneStatement ==
    /\ StatementCompiled
    /\ driver = "mysql"
    /\ expressionMap.mainAlias = Metadata(DocTable)
    /\ Len(expressionMap.valuesSet.sets) = 2
    /\ GetEntityValue(Column("uid"), expressionMap.valuesSet.sets[1]) = Undefined
    /\ GetEntityValue(Column("version"), expressionMap.valuesSet.sets[1]) = Undefined
    /\ GetEntityValue(Column("uid"), expressionMap.valuesSet.sets[2]) = Lit("u")
    /\ GetEntityValue(Column("version"), expressionMap.valuesSet.sets[2]) = Lit("2")
    /\ Len(ValueTokens(compiled.query)) = 6
    /\ Len(compiled.parameters) = 5

\* The number of all-default idioms in the text.
AllDefaultIdioms(sql) == CountSql(sql, " DEFAULT VALUES") + CountSql(sql, " VALUES ()")

\* The all-default idiom of the driver stands in place of the VALUES body.
AllDefaultIdiom(sql) ==
    /\ CountSql(sql, " VALUES ") = 0
    /\ IF IsMysqlOrAurora(driver)
       THEN CountSql(sql, " VALUES ()") = 1 /\ CountSql(sql, " DEFAULT VALUES") = 0
       ELSE CountSql(sql, " DEFAULT VALUES") = 1 /\ CountSql(sql, " VALUES ()") = 0

\* A single record whose selected columns all resolve to "use default".
SingleRecordAllDefault(sets, columns) ==
    /\ expressionMap.mainAlias.hasMetadata
    /\ Len(sets) = 1
    /\ Len(columns) > 0
    /\ \A j \in 1..Len(columns) : RuleFor(columns[j], GetEntityValue(columns[j], sets[1])) = "d"

\* No value set writes any text: there is none, or no column is selected and
\* no record has a key of its own.
NothingToWrite(sets, columns) ==
    \/ Len(sets) = 0
    \/ Len(columns) = 0 /\ \A i \in 1..Len(sets) : sets[i] = <<>>

\* The text has one VALUES tuple that holds one default marker per column.
TupleOfDefaults(sql, columns) ==
    /\ AllDefaultIdioms(sql) = 0
    /\ CountSql(sql, " VALUES ") = 1
    /\ Len(ValueTokens(sql)) = Len(columns)
    /\ \A h \in 1..Len(columns) :
          \/ ValueTokens(sql)[h] \in {Sql("DEFAULT"), Sql("NULL")}
          \/ ValueTokens(sql)[h] = DefaultOf(columns[h].databaseName)

\* C16 as stated: when every selected column of a single record resolves to
\* "use default", the values expression is empty and the statement has the
\* all-default idiom of the dialect ("VALUES ()" on MySQL and Aurora,
\* "DEFAULT VALUES" elsewhere) and no VALUES tuple.
AllDefaultRecordUsesIdiom ==
    (StatementCompiled
        /\ SingleRecordAllDefault(expressionMap.valuesSet.sets, GetInsertedColumns(driver, expressionMap)))
       => AllDefaultIdiom(compiled.sql)

\* C16 amended: the all-default idiom is written exactly when the values
\* expression is empty, that is, when no value set writes any text; a single
\* record whose selected columns are all undefined compiles to one VALUES
\* tuple of default markers.
AllDefaultIdiomIffNothingToWrite ==
    StatementCompiled
       => /\ IF NothingToWrite(expressionMap.valuesSet.sets, GetInsertedColumns(driver, expressionMap))
             THEN AllDefaultIdiom(compiled.sql)
             ELSE AllDefaultIdioms(compiled.sql) = 0
          /\ SingleRecordAllDefault(expressionMap.valuesSet.sets, GetInsertedColumns(driver, expressionMap))
                => TupleOfDefaults(compiled.sql, GetInsertedColumns(driver, expressionMap))

\* One record with every selected column undefined, compiled on postgres.
AllDefaultRecordCompiled ==
    /\ StatementCompiled
    /\ driver = "postgres"
    /\ expressionMap.mainAlias = Metadata(GeoTable)
    /\ expressionMap.valuesSet.form = "object"
    /\ SingleRecordAllDefault(expressionMap.valuesSet.sets, GetInsertedColumns(driver, expressionMap))
    /\ CountSql(compiled.sql, "DEFAULT") = 2

----------------------------------------------------------------------------
(* Properties of the returning columns execute() builds. *)

ElementsOf(seq) == {seq[i] : i \in 1..Len(seq)}

NoColumnTwice(seq) == \A i, j \in 1..Len(seq) : seq[i] = seq[j] => i = j

\* The extra columns the update-entity feature asks for in this run.
ExtrasNeeded(em) ==
    IF em.updateEntity /\ em.mainAlias.hasMetadata THEN em.extraReturningColumns ELSE <<>>

\* C17: the list of returning columns execute() builds holds exactly the
\* requested columns (resolved against the metadata) and the extra columns of
\* the update-entity feature, and no column more than once, whatever the
\* requested list is.
ReturningColumnsAreUnion ==
    Called("getQueryAndParameters") /\ compiled # NothingCompiled
       => /\ ElementsOf(compiled.returningColumns)
                = ElementsOf(ResolveReturning(expressionMap)) \cup ElementsOf(ExtrasNeeded(expressionMap))
          /\ NoColumnTwice(compiled.returningColumns)

====
